---- MODULE Spec2Model ----
(***************************************************************************)
(* A model of kanta's playback controller.                                 *)
(*                                                                         *)
(*   src/src/player.rs          Player: playlist, playlist_index, sink and *)
(*                              the media-control adapter it drives        *)
(*   src/src/media_controls.rs  KantaMediaControls: inbound event channel  *)
(*                              and outbound metadata / playback status    *)
(*   src/src/track.rs           Track::load: how a path becomes a Track    *)
(*   src/src/main.rs            Kanta: the application's own controller,   *)
(*                              with queue, queue_pos and sink             *)
(*                                                                         *)
(* The rodio Sink is modelled by the primitives player.rs calls on it.     *)
(* Sink::skip_one is taken to remove the source at the head of the sink's  *)
(* queue at once.  Durations are counted in units of ten seconds.          *)
(***************************************************************************)
EXTENDS Integers, Sequences, FiniteSets, TLC

VARIABLES
    player,     \* the Player struct (player.rs 14-21)
    files,      \* paths whose file can currently be opened, read and decoded
    result,     \* outcome of the last call: "Ok", "Err" (anyhow::Error) or "Panic"
    last,       \* the last operation called, with its integer argument
    prev,       \* the Player struct as it was when that operation was called
    m3u8,       \* the playlist file: the paths it was written from, and its text
    kanta,      \* the Kanta struct of the application (main.rs 35-41)
    kanta_before, \* the Kanta struct as it was when the last message arrived
    drawn         \* the controls of the view that iced drew last

vars == <<player, files, result, last, prev, m3u8, kanta, kanta_before, drawn>>

----------------------------------------------------------------------------
(* Bounds of the model *)

\* longest playlist
MaxLen == 2

\* most sources the application's sink is let to hold
MaxSources == 2

\* most files that stop being audio files
MaxChanged == 1
\* largest index passed to jump_to_track_at, and cap of playlist_index
MaxIndex == 2
\* longest position of a source, in units of ten seconds
MaxPos == 1
\* most events waiting in the media-control channel
MaxEvents == 1
\* most paths in a playlist file
MaxPaths == 2
\* longest path of a playlist file, in characters
MaxPathLen == 2

\* Duration::from_secs(10) of a Seek event, in units of ten seconds
SeekStep == 1

Paths == {"a", "b"}

\* what the file at a path is now:
\*   "audio"        an audio file with tags and a known length
\*   "missing"      File::open and fs::read fail
\*   "not_audio"    it opens, but no format reader and no decoder takes it
\*   "no_metadata"  it decodes, but the probe finds no metadata revision
\*   "no_duration"  it decodes and has tags, but its length is not known
FileKinds == {"audio", "missing", "not_audio", "no_metadata", "no_duration"}

\* a path that `fs` does not list names no file
file_kind(fs, path) == IF path \in DOMAIN fs THEN fs[path] ELSE "missing"

\* Track::load (track.rs): File::open?, then the probe's result is unwrapped,
\* then "No metadata" and "track has no total duration" are errors
Track_load(path, fs) ==
    CASE file_kind(fs, path) = "missing" -> "Err"
      [] file_kind(fs, path) = "not_audio" -> "Panic"
      [] file_kind(fs, path) = "no_metadata" -> "Err"
      [] file_kind(fs, path) = "no_duration" -> "Err"
      [] OTHER -> "Ok"

\* fs::read(path)? followed by Decoder::builder()...build()? (player.rs 197-203)
read_and_decode(path, fs) ==
    IF file_kind(fs, path) \in {"missing", "not_audio"} THEN "Err" ELSE "Ok"

\* the characters of a path written out: a letter, carriage return, line feed
CR == "\r"
LF == "\n"
Chars == {"x", CR, LF}

----------------------------------------------------------------------------
(* Option<T> *)

None == <<>>
Some(x) == <<x>>
IsSome(o) == o # <<>>
Unwrap(o) == o[1]

(* anyhow::Result<()>, carrying the struct as the call left it *)
Ok(p) == [p |-> p, r |-> "Ok"]
Err(p) == [p |-> p, r |-> "Err"]
Panic(p) == [p |-> p, r |-> "Panic"]

----------------------------------------------------------------------------
(* MediaControlEvent, as tick matches on it *)

Ev(type, dir, amount) == [type |-> type, dir |-> dir, amount |-> amount]

Events ==
    {Ev(t, "-", 0) : t \in {"Play", "Pause", "Next", "Previous", "Toggle"}}
    \cup {Ev("SetVolume", "-", v) : v \in 0..1}
    \cup {Ev("SetPosition", "-", n) : n \in 0..MaxPos}
    \cup {Ev("Seek", d, 0) : d \in {"Forward", "Backward"}}
    \cup {Ev("SeekBy", d, n) : d \in {"Forward", "Backward"}, n \in 1..2}

----------------------------------------------------------------------------
(* The rodio Sink, by the primitives player.rs uses *)

sink_empty(p) == p.sink.queue = <<>>

sink_is_paused(p) == p.sink.paused

sink_get_pos(p) == p.sink.position

sink_play(p) == [p EXCEPT !.sink.paused = FALSE]

sink_pause(p) == [p EXCEPT !.sink.paused = TRUE]

sink_set_volume(p, volume) == [p EXCEPT !.sink.volume = volume]

\* drops the source being played; the position starts over
sink_skip_one(p) ==
    IF p.sink.queue = <<>> THEN p
    ELSE [p EXCEPT !.sink.queue = Tail(@), !.sink.position = 0]

\* queues a freshly decoded source of `track`; an empty sink starts it at once
sink_append(p, track) ==
    [p EXCEPT !.sink.queue = Append(@, track),
              !.sink.position = IF p.sink.queue = <<>> THEN 0 ELSE @]

\* Sink::try_seek: nothing to seek in an empty sink (Ok, no effect); a target
\* past the end of the stream is a SeekError and the position stays
sink_try_seek(p, position) ==
    IF sink_empty(p) \/ position > MaxPos THEN p
    ELSE [p EXCEPT !.sink.position = position]

----------------------------------------------------------------------------
(* KantaMediaControls (media_controls.rs) *)

receive_event(p) ==
    IF p.media_controls.event_rx = <<>> THEN None
    ELSE Some(Head(p.media_controls.event_rx))

update_metadata(p, track) == [p EXCEPT !.media_controls.metadata = Some(track)]

MediaPlayback(is_idle, is_paused) ==
    IF ~is_idle /\ ~is_paused THEN "Playing"
    ELSE IF is_idle /\ is_paused THEN "Paused"
    ELSE "Stopped"

update_playback(p, is_idle, is_paused) ==
    [p EXCEPT !.media_controls.playback = MediaPlayback(is_idle, is_paused)]

----------------------------------------------------------------------------
(* Player (player.rs).  Every method that returns anyhow::Result<()> is an   *)
(* operator from the struct to Ok / Err / Panic of the struct it leaves.     *)
(* `fs` gives for each path what its file is now.                            *)

try_new ==
    [playlist |-> <<>>,
     playlist_index |-> None,
     sink |-> [queue |-> <<>>, paused |-> FALSE, position |-> 0, volume |-> 1],
     media_controls |-> [playback |-> "Unset", metadata |-> None, event_rx |-> <<>>]]

\* Vec::get: None when the index is past the end
current_track(p) ==
    IF IsSome(p.playlist_index) /\ Unwrap(p.playlist_index) < Len(p.playlist)
    THEN Some(p.playlist[Unwrap(p.playlist_index) + 1])
    ELSE None

update_media_control_playback(p) ==
    Ok(update_playback(p, sink_empty(p), sink_is_paused(p)))

\* mutant: the swap resumes playback when it hands over the new source
update_sink_to_current_track_resuming(p, fs) ==
    LET p1 == IF ~sink_empty(p) THEN sink_skip_one(p) ELSE p
        track == current_track(p1)
    IN  IF ~IsSome(track) THEN Ok(p1)
        ELSE IF read_and_decode(Unwrap(track), fs) = "Err" THEN Err(p1)
        ELSE LET p2 == sink_play(sink_append(p1, Unwrap(track)))
                 p3 == update_metadata(p2, Unwrap(track))
             IN  update_media_control_playback(p3)

update_sink_to_current_track(p, fs) ==
    LET p1 == IF ~sink_empty(p) THEN sink_skip_one(p) ELSE p
        track == current_track(p1)
    IN  IF ~IsSome(track) THEN Ok(p1)
        ELSE IF read_and_decode(Unwrap(track), fs) = "Err" THEN Err(p1)
        ELSE LET p2 == sink_append(p1, Unwrap(track))
                 p3 == update_metadata(p2, Unwrap(track))
             IN  update_media_control_playback(p3)

jump_to_track_at(p, index, fs) ==
    update_sink_to_current_track([p EXCEPT !.playlist_index = Some(index)], fs)

jump_to_previous_track(p, fs) ==
    IF p.playlist = <<>> THEN Ok(p)
    ELSE IF ~IsSome(p.playlist_index) THEN Ok(p)
    ELSE LET index == Unwrap(p.playlist_index)
             p1 == IF index > 0 THEN [p EXCEPT !.playlist_index = Some(index - 1)]
                   ELSE p
         IN  update_sink_to_current_track(p1, fs)

\* mutant: next() at the last index wraps to the first track
jump_to_next_track_wrapping(p, fs) ==
    IF p.playlist = <<>> THEN Ok(p)
    ELSE LET index == p.playlist_index
             next == IF IsSome(index)
                         THEN Some((Unwrap(index) + 1) % Len(p.playlist))
                     ELSE Some(0)
         IN  update_sink_to_current_track([p EXCEPT !.playlist_index = next], fs)

jump_to_next_track(p, fs) ==
    IF p.playlist = <<>> THEN Ok(p)
    ELSE LET index == p.playlist_index
             next == IF IsSome(index) /\ Unwrap(index) = Len(p.playlist) - 1
                         THEN Some(Unwrap(index))
                     ELSE IF IsSome(index) THEN Some(Unwrap(index) + 1)
                     ELSE Some(0)
         IN  update_sink_to_current_track([p EXCEPT !.playlist_index = next], fs)

\* mutant: play() does nothing to the sink when there is no current track
play_only_with_track(p) ==
    IF current_track(p) = None THEN update_media_control_playback(p)
    ELSE update_media_control_playback(sink_play(p))

play(p) == update_media_control_playback(sink_play(p))

pause(p) == update_media_control_playback(sink_pause(p))

\* mutant: the first track added is started by the add itself
add_to_playlist_starting(p, track) ==
    IF p.playlist = <<>>
    THEN sink_append([p EXCEPT !.playlist = Append(@, track),
                               !.playlist_index = Some(0)], track)
    ELSE [p EXCEPT !.playlist = Append(@, track)]

add_to_playlist(p, track) == [p EXCEPT !.playlist = Append(@, track)]

\* the number of the first line whose Track::load does not give a Track, 0 when
\* every line loads
first_failing_line(lines, fs) ==
    IF \E i \in 1..Len(lines) : Track_load(lines[i], fs) # "Ok"
    THEN CHOOSE i \in 1..Len(lines) :
            /\ Track_load(lines[i], fs) # "Ok"
            /\ \A j \in 1..(i - 1) : Track_load(lines[j], fs) = "Ok"
    ELSE 0

\* `lines` are the lines of the playlist file, None when it cannot be read;
\* collect::<Result<_, _>> loads the lines in order and stops at the first
\* that fails, by an error or by the panic of Track::load
load_m3u8_playlist(p, lines, fs) ==
    IF ~IsSome(lines) THEN Err(p)
    ELSE IF first_failing_line(Unwrap(lines), fs) = 0
         THEN Ok([p EXCEPT !.playlist = Unwrap(lines)])
    ELSE IF Track_load(Unwrap(lines)[first_failing_line(Unwrap(lines), fs)], fs) = "Panic"
         THEN Panic(p)
    ELSE Err(p)

\* [String]::join("\n"): the paths, a line feed between each two
RECURSIVE join(_)
join(paths) ==
    IF paths = <<>> THEN <<>>
    ELSE IF Len(paths) = 1 THEN paths[1]
    ELSE paths[1] \o <<LF>> \o join(Tail(paths))

\* str::lines: the text is cut after every line feed; a line loses its line
\* feed and then a carriage return that stood before that line feed
strip_line(line) ==
    IF line # <<>> /\ line[Len(line)] = LF
    THEN LET l1 == SubSeq(line, 1, Len(line) - 1)
         IN  IF l1 # <<>> /\ l1[Len(l1)] = CR THEN SubSeq(l1, 1, Len(l1) - 1) ELSE l1
    ELSE line

RECURSIVE str_lines(_)
str_lines(contents) ==
    IF contents = <<>> THEN <<>>
    ELSE LET ends == {i \in 1..Len(contents) : contents[i] = LF}
             cut == IF ends = {} THEN Len(contents)
                    ELSE CHOOSE i \in ends : \A j \in ends : i <= j
         IN  <<strip_line(SubSeq(contents, 1, cut))>>
                \o str_lines(SubSeq(contents, cut + 1, Len(contents)))

\* mutant: every path is written with a line feed after it
export_m3u8_playlist_terminated(p) ==
    IF p.playlist = <<>> THEN <<>> ELSE join(p.playlist) \o <<LF>>

\* the text export_m3u8_playlist writes to the file
export_m3u8_playlist(p) == join(p.playlist)

clear_playlist(p, fs) ==
    update_sink_to_current_track([p EXCEPT !.playlist = <<>>], fs)

\* Sink::try_seek returns Err(SeekError): a sink that holds a source is asked
\* for a position past the end of the stream
sink_try_seek_fails(p, pos) == ~sink_empty(p) /\ pos > MaxPos

position(p) == sink_get_pos(p)

\* mutant: the seek error is passed to the caller with `?`
set_position_propagating(p, pos) ==
    IF sink_try_seek_fails(p, pos) THEN Err(p)
    ELSE update_media_control_playback(sink_try_seek(p, pos))

set_position(p, pos) == update_media_control_playback(sink_try_seek(p, pos))

set_volume(p, volume) == sink_set_volume(p, volume)

\* one iteration of tick's `while let Some(event)` loop, the event received
handle_event(p, event, fs) ==
    CASE event.type = "Play" -> play(p)
      [] event.type = "Pause" -> pause(p)
      [] event.type = "Next" -> jump_to_next_track(p, fs)
      [] event.type = "Previous" -> jump_to_previous_track(p, fs)
      [] event.type = "SetVolume" -> Ok(set_volume(p, event.amount))
      [] event.type = "SetPosition" -> set_position(p, event.amount)
      [] event.type = "Seek" /\ event.dir = "Forward" ->
            set_position(p, position(p) + SeekStep)
      [] event.type = "Seek" /\ event.dir = "Backward" ->
            IF position(p) < SeekStep THEN Panic(p)
            ELSE set_position(p, position(p) - SeekStep)
      [] event.type = "SeekBy" /\ event.dir = "Forward" ->
            set_position(p, position(p) + event.amount)
      [] event.type = "SeekBy" /\ event.dir = "Backward" ->
            IF position(p) < event.amount THEN Panic(p)
            ELSE set_position(p, position(p) - event.amount)
      [] OTHER -> Ok(p)

RECURSIVE drain_events(_, _)
drain_events(p, fs) ==
    LET event == receive_event(p)
    IN  IF ~IsSome(event) THEN Ok(p)
        ELSE LET p1 == [p EXCEPT !.media_controls.event_rx = Tail(@)]
                 o == handle_event(p1, Unwrap(event), fs)
             IN  IF o.r # "Ok" THEN o ELSE drain_events(o.p, fs)

\* mutant: the auto-advance is made only when a current track exists
tick_with_current_track(p, fs) ==
    LET o == IF sink_empty(p) /\ IsSome(current_track(p))
             THEN jump_to_next_track(p, fs) ELSE Ok(p)
    IN  IF o.r # "Ok" THEN o ELSE drain_events(o.p, fs)

tick(p, fs) ==
    LET o == IF sink_empty(p) THEN jump_to_next_track(p, fs) ELSE Ok(p)
    IN  IF o.r # "Ok" THEN o ELSE drain_events(o.p, fs)

----------------------------------------------------------------------------
(* Kanta (main.rs): the controller of the iced application.  A Track holds   *)
(* its decoded source, so only adding a track reads the file system.  A      *)
(* source in the sink is named by the path of the track it was cloned from.  *)

\* Track::try_from (main.rs 48-81): File::open? and Decoder::try_from? give the
\* error; tags are optional; the source may not know its total duration
Kanta_Track_try_from(path, fs) ==
    IF file_kind(fs, path) \in {"missing", "not_audio"} THEN None
    ELSE Some([name |-> path,
               total_duration |-> IF file_kind(fs, path) = "no_duration"
                                  THEN None ELSE Some(MaxPos)])

Kanta_new ==
    [queue |-> <<>>,
     queue_pos |-> None,
     sink |-> [queue |-> <<>>, paused |-> FALSE, position |-> 0, volume |-> 1]]

\* VecDeque::get: None when the position is past the end
Kanta_current_track(k) ==
    IF IsSome(k.queue_pos) /\ Unwrap(k.queue_pos) < Len(k.queue)
    THEN Some(k.queue[Unwrap(k.queue_pos) + 1])
    ELSE None

\* the sources are skipped only while the sink is not paused
Kanta_update_sink_to_current_track(k) ==
    IF k.queue = <<>>
    THEN IF sink_is_paused(k) \/ sink_empty(k) THEN k
         ELSE [k EXCEPT !.sink.queue = <<>>, !.sink.position = 0]
    ELSE IF IsSome(Kanta_current_track(k))
    THEN sink_append(IF ~sink_is_paused(k) /\ ~sink_empty(k)
                     THEN sink_skip_one(k) ELSE k,
                     Unwrap(Kanta_current_track(k)).name)
    ELSE k

Kanta_prev(k) ==
    IF k.queue = <<>> THEN k
    ELSE IF ~IsSome(k.queue_pos) THEN k
    ELSE IF Unwrap(k.queue_pos) > 0
    THEN Kanta_update_sink_to_current_track(
             [k EXCEPT !.queue_pos = Some(Unwrap(@) - 1)])
    ELSE k

Kanta_next(k) ==
    IF k.queue = <<>> THEN k
    ELSE Kanta_update_sink_to_current_track(
             [k EXCEPT !.queue_pos =
                 IF ~IsSome(@) THEN Some(0)
                 ELSE IF Unwrap(@) = Len(k.queue) - 1 THEN @
                 ELSE Some(Unwrap(@) + 1)])

Msg(type, arg) == [type |-> type, arg |-> arg]

\* Kanta::view: the controls it draws, None when it panics.  The play/pause
\* button sends Play or Pause and exists only with a current track; the
\* position slider unwraps the current track's total duration (main.rs
\* 130-136) and without a current track runs from 0 to 100; there is one Jump
\* button for each track of the queue.
Kanta_view(k) ==
    IF ~IsSome(Kanta_current_track(k))
    THEN Some([play_pause |-> "None", slider_to_100 |-> TRUE,
               tracks |-> Len(k.queue)])
    ELSE IF ~IsSome(Unwrap(Kanta_current_track(k)).total_duration) THEN None
    ELSE Some([play_pause |-> IF sink_is_paused(k) THEN "Play" ELSE "Pause",
               slider_to_100 |-> FALSE,
               tracks |-> Len(k.queue)])

\* Kanta::update; `picked` is what the file dialog returned for SelectAudioPath;
\* the slider's x of PositionChanged is message.arg / MaxPos (above 1 only
\* from the slider that runs to 100)
Kanta_update(k, message, picked, fs) ==
    CASE message.type = "SelectAudioPath" ->
            IF ~IsSome(picked) THEN Ok(k)
            ELSE IF ~IsSome(Kanta_Track_try_from(Unwrap(picked), fs)) THEN Panic(k)
            ELSE Ok([k EXCEPT !.queue =
                        Append(@, Unwrap(Kanta_Track_try_from(Unwrap(picked), fs)))])
      [] message.type = "Play" -> Ok(sink_play(k))
      [] message.type = "Pause" -> Ok(sink_pause(k))
      [] message.type = "Prev" -> Ok(Kanta_prev(k))
      [] message.type = "Next" -> Ok(Kanta_next(k))
      [] message.type = "Jump" ->
            Ok(Kanta_update_sink_to_current_track(
                   [k EXCEPT !.queue_pos = Some(message.arg)]))
      [] message.type = "ClearQueue" ->
            Ok(Kanta_update_sink_to_current_track([k EXCEPT !.queue = <<>>]))
      [] message.type = "PositionChanged" ->
            IF ~IsSome(Kanta_current_track(k)) THEN Ok(k)
            ELSE IF ~IsSome(Unwrap(Kanta_current_track(k)).total_duration) THEN Panic(k)
            ELSE Ok(sink_try_seek(k,
                     (Unwrap(Unwrap(Kanta_current_track(k)).total_duration)
                          * message.arg) \div MaxPos))
      [] message.type = "VolumeChanged" -> Ok(sink_set_volume(k, message.arg))
      [] message.type = "Tick" ->
            IF sink_empty(k) THEN Ok(Kanta_next(k)) ELSE Ok(k)

----------------------------------------------------------------------------
(* The state machine *)

Op(name, n) == [op |-> name, n |-> n]

Init ==
    /\ player = try_new
    /\ files = [path \in Paths |-> "audio"]
    /\ result = "Ok"
    /\ last = Op("try_new", 0)
    /\ prev = try_new
    /\ m3u8 = [paths |-> <<>>, contents |-> <<>>]
    /\ kanta = Kanta_new
    /\ kanta_before = Kanta_new
    /\ drawn = Unwrap(Kanta_view(Kanta_new))

\* playlist_index is a usize that next() can increase without end; the states
\* explored are those with the cursor up to MaxIndex.  The actions that can
\* move the cursor up carry this bound as a guard; no formula rests on an
\* action being disabled by it, and no specification asks fairness of them.
Capped(p) == IsSome(p.playlist_index) => Unwrap(p.playlist_index) <= MaxIndex

\* a call of a Player method from the control thread, leaving outcome `o`
Call(name, n, o) ==
    /\ result # "Panic"
    /\ player' = o.p
    /\ result' = o.r
    /\ last' = Op(name, n)
    /\ prev' = player
    /\ UNCHANGED <<files, m3u8, kanta, kanta_before, drawn>>

JumpToTrackAt ==
    \E index \in 0..MaxIndex :
        Call("jump_to_track_at", index, jump_to_track_at(player, index, files))

JumpToPreviousTrack == Call("jump_to_previous_track", 0, jump_to_previous_track(player, files))

JumpToNextTrack ==
    /\ Capped(jump_to_next_track(player, files).p)
    /\ Call("jump_to_next_track", 0, jump_to_next_track(player, files))

Play == Call("play", 0, play(player))

Pause == Call("pause", 0, pause(player))

AddToPlaylist ==
    \E track \in Paths :
        /\ Len(player.playlist) < MaxLen
        /\ Call("add_to_playlist", 0, Ok(add_to_playlist(player, track)))

Lines == UNION {[1..n -> Paths] : n \in 0..MaxLen}

LoadM3u8Playlist ==
    \E lines \in {None} \cup {Some(l) : l \in Lines} :
        Call("load_m3u8_playlist",
             IF IsSome(lines) THEN first_failing_line(Unwrap(lines), files) ELSE 0,
             load_m3u8_playlist(player, lines, files))

ClearPlaylist == Call("clear_playlist", 0, clear_playlist(player, files))

SetPosition ==
    \E pos \in 0..(MaxPos + 1) :
        Call("set_position", pos, set_position(player, pos))

SetVolume ==
    \E volume \in 0..1 :
        Call("set_volume", volume, Ok(set_volume(player, volume)))

Tick ==
    /\ Capped(tick(player, files).p)
    /\ Call("tick", 0, tick(player, files))

(* What happens outside the control thread *)

Env(name) ==
    /\ result # "Panic"
    /\ last' = Op(name, 0)
    /\ prev' = player
    /\ UNCHANGED <<result, m3u8, kanta, kanta_before, drawn>>

\* the sink plays on: the position of the source at its head advances
Elapse ==
    /\ ~sink_empty(player) /\ ~sink_is_paused(player)
    /\ player.sink.position < MaxPos
    /\ player' = [player EXCEPT !.sink.position = @ + 1]
    /\ Env("elapse")
    /\ UNCHANGED files

\* the source at the head of the sink plays to its end and leaves the sink
SourceEnds ==
    /\ ~sink_empty(player) /\ ~sink_is_paused(player)
    /\ player' = [player EXCEPT !.sink.queue = Tail(@)]
    /\ Env("source_ends")
    /\ UNCHANGED files

\* the OS thread's callback sends an event into the channel (media_controls.rs 37-42)
SendEvent ==
    \E event \in Events :
        /\ Len(player.media_controls.event_rx) < MaxEvents
        /\ player' = [player EXCEPT !.media_controls.event_rx = Append(@, event)]
        /\ Env("send_event")
        /\ UNCHANGED files

\* an audio file is removed, overwritten or replaced by another file
ChangeFile ==
    \E path \in DOMAIN files, kind \in FileKinds \ {"audio"} :
        /\ files[path] = "audio"
        /\ Cardinality({q \in DOMAIN files : files[q] # "audio"}) < MaxChanged
        /\ files' = [files EXCEPT ![path] = kind]
        /\ Env("change_file")
        /\ UNCHANGED player

\* the calls of the control thread, and what the sink and the file system do
Next ==
    \/ JumpToTrackAt
    \/ JumpToPreviousTrack
    \/ JumpToNextTrack
    \/ Play
    \/ Pause
    \/ AddToPlaylist
    \/ LoadM3u8Playlist
    \/ ClearPlaylist
    \/ SetPosition
    \/ Tick
    \/ Elapse
    \/ SourceEnds
    \/ ChangeFile

Spec == Init /\ [][Next]_vars

\* the same, with the volume control and the OS thread sending media-control events
NextEvents == Next \/ SetVolume \/ SendEvent

SpecEvents == Init /\ [][NextEvents]_vars

\* the tick driver alone: tracks are added, the OS thread sends events, the sink
\* plays and files disappear, and the Player is only ever called through tick
NextTick ==
    \/ AddToPlaylist
    \/ Tick
    \/ SendEvent
    \/ Elapse
    \/ SourceEnds
    \/ ChangeFile

SpecTick == Init /\ [][NextTick]_vars

(* The playlist file, its paths written out character by character *)

FilePaths == UNION {[1..n -> Chars] : n \in 1..MaxPathLen}

PathLists == UNION {[1..n -> FilePaths] : n \in 0..MaxPaths}

\* a new Player, and a playlist file holding the paths P, one on each line;
\* every path names a file that Track::load can load
InitM3u8 ==
    /\ player = try_new
    /\ files = [path \in FilePaths |-> "audio"]
    /\ result = "Ok"
    /\ last = Op("try_new", 0)
    /\ prev = try_new
    /\ \E P \in PathLists : m3u8 = [paths |-> P, contents |-> join(P)]
    /\ kanta = Kanta_new
    /\ kanta_before = Kanta_new
    /\ drawn = Unwrap(Kanta_view(Kanta_new))

LoadFile ==
    LET read == str_lines(m3u8.contents)
    IN  Call("load_m3u8_playlist", first_failing_line(read, files),
             load_m3u8_playlist(player, Some(read), files))

\* the playlist just loaded is written back to the file
ExportFile ==
    /\ last.op = "load_m3u8_playlist" /\ result = "Ok"
    /\ m3u8' = [m3u8 EXCEPT !.contents = export_m3u8_playlist(player)]
    /\ last' = Op("export_m3u8_playlist", 0)
    /\ prev' = player
    /\ UNCHANGED <<player, files, result, kanta, kanta_before, drawn>>

NextM3u8 == LoadFile \/ ExportFile

SpecM3u8 == InitM3u8 /\ [][NextM3u8]_vars

\* adding, advancing, clearing and ticking, with every file an audio file:
\* here a playlist of one track is a track added to an empty playlist
NextAutoStart ==
    \/ AddToPlaylist
    \/ JumpToNextTrack
    \/ ClearPlaylist
    \/ Tick
    \/ Elapse
    \/ SourceEnds

SpecAutoStart == Init /\ [][NextAutoStart]_vars

(* The application (main.rs 22-24): iced calls Kanta::update for each       *)
(* message and Kanta::view when it redraws, after one message or several.   *)
(* The buttons and sliders that send messages are those of the view drawn   *)
(* last; Tick comes from the subscription.                                  *)

\* queue_pos is a usize and the sink's queue has no limit; the model stops short
KantaCapped(k) ==
    /\ IsSome(k.queue_pos) => Unwrap(k.queue_pos) <= MaxIndex
    /\ Len(k.sink.queue) <= MaxSources

\* iced delivers `message` to Kanta::update
Deliver(message, picked) ==
    LET o == Kanta_update(kanta, message, picked, files)
    IN  /\ result # "Panic"
        /\ KantaCapped(o.p)
        /\ kanta' = o.p
        /\ result' = o.r
        /\ last' = Op(message.type, message.arg)
        /\ kanta_before' = kanta
        /\ UNCHANGED <<player, prev, files, m3u8, drawn>>

\* iced redraws: Kanta::view runs on the state the messages so far have left
KantaView ==
    /\ result # "Panic"
    /\ last.op # "view"
    /\ result' = IF IsSome(Kanta_view(kanta)) THEN result ELSE "Panic"
    /\ drawn' = IF IsSome(Kanta_view(kanta)) THEN Unwrap(Kanta_view(kanta)) ELSE drawn
    /\ last' = Op("view", 0)
    /\ kanta_before' = kanta
    /\ UNCHANGED <<player, prev, files, m3u8, kanta>>

\* "Add track": the dialog is cancelled or returns a path
KantaSelectAudioPath ==
    \E picked \in {None} \cup {Some(path) : path \in Paths} :
        /\ Len(kanta.queue) < MaxLen
        /\ Deliver(Msg("SelectAudioPath", 0), picked)

\* the play/pause button as it was drawn
KantaPlay ==
    /\ drawn.play_pause = "Play"
    /\ Deliver(Msg("Play", 0), None)

KantaPause ==
    /\ drawn.play_pause = "Pause"
    /\ Deliver(Msg("Pause", 0), None)

KantaPrev == Deliver(Msg("Prev", 0), None)

KantaNext == Deliver(Msg("Next", 0), None)

\* one button for each track of the queue as it was drawn
KantaJump ==
    \E index \in 0..(drawn.tracks - 1) :
        Deliver(Msg("Jump", index), None)

KantaClearQueue == Deliver(Msg("ClearQueue", 0), None)

\* the position slider as it was drawn
KantaPositionChanged ==
    \E x \in 0..(IF drawn.slider_to_100 THEN MaxPos + 1 ELSE MaxPos) :
        Deliver(Msg("PositionChanged", x), None)

KantaVolumeChanged ==
    \E volume \in 0..1 :
        Deliver(Msg("VolumeChanged", volume), None)

\* the subscription sends Tick every 10 ms
KantaTick == Deliver(Msg("Tick", 0), None)

KantaEnv(name) ==
    /\ result # "Panic"
    /\ last' = Op(name, 0)
    /\ kanta_before' = kanta
    /\ UNCHANGED <<player, prev, files, result, m3u8, drawn>>

\* the sink plays on: the position of the source at its head advances
KantaElapse ==
    /\ ~sink_empty(kanta) /\ ~sink_is_paused(kanta)
    /\ kanta.sink.position < MaxPos
    /\ kanta' = [kanta EXCEPT !.sink.position = @ + 1]
    /\ KantaEnv("elapse")

\* the source at the head of the sink plays to its end; the next one starts
KantaSourceEnds ==
    /\ ~sink_empty(kanta) /\ ~sink_is_paused(kanta)
    /\ kanta' = [kanta EXCEPT !.sink.queue = Tail(@), !.sink.position = 0]
    /\ KantaEnv("source_ends")

NextKanta ==
    \/ KantaView
    \/ KantaSelectAudioPath
    \/ KantaPlay
    \/ KantaPause
    \/ KantaPrev
    \/ KantaNext
    \/ KantaJump
    \/ KantaClearQueue
    \/ KantaPositionChanged
    \/ KantaTick
    \/ KantaElapse
    \/ KantaSourceEnds
    \/ ChangeFile

SpecKanta == Init /\ [][NextKanta]_vars

\* the same, with the volume slider
NextKantaVolume == NextKanta \/ KantaVolumeChanged

SpecKantaVolume == Init /\ [][NextKantaVolume]_vars

----------------------------------------------------------------------------
(* Vocabulary of the claims: `prev` is the struct an operation was called on, *)
(* `player` the struct it left.                                               *)

Called(name) == last.op = name

AtLastIndex(p) ==
    p.playlist # <<>> /\ p.playlist_index = Some(Len(p.playlist) - 1)

\* no Play or Pause event was waiting when tick was called
NoPlayPauseWaiting(p) ==
    \A i \in 1..Len(p.media_controls.event_rx) :
        p.media_controls.event_rx[i].type \notin {"Play", "Pause"}

----------------------------------------------------------------------------
(* C1: when tick() finds the cursor at the last index and the output empty,   *)
(* it leaves the cursor where it is, enqueues no source (the output is still  *)
(* empty afterwards) and the status pushed is not Playing.                    *)
C1_EndOfPlaylistStops ==
    (Called("tick") /\ AtLastIndex(prev) /\ sink_empty(prev)
        /\ prev.media_controls.event_rx = <<>>)
    => /\ player.playlist_index = prev.playlist_index
       /\ sink_empty(player)
       /\ player.media_controls.playback # "Playing"

(* C2: in every reachable state the cursor is None or addresses an item of    *)
(* the playlist: 0 <= cursor < len.                                           *)
C2_CursorInvariant ==
    IsSome(player.playlist_index)
    => (0 <= Unwrap(player.playlist_index)
        /\ Unwrap(player.playlist_index) < Len(player.playlist))

(* C3: clear() always leaves the cursor None and the output empty.            *)
C3_ClearResets ==
    Called("clear_playlist")
    => (player.playlist_index = None /\ sink_empty(player))

(* C4: jump_to(i) with i outside [0, len) changes neither the cursor nor the  *)
(* output.                                                                    *)
C4_JumpOutOfRangeNoOp ==
    (Called("jump_to_track_at") /\ last.n >= Len(prev.playlist))
    => (player.playlist_index = prev.playlist_index /\ player.sink = prev.sink)

(* C5, as claimed: adding a track to an empty playlist sets the cursor to 0   *)
(* and hands that track's source to the output, within the add itself.        *)
C5_AddAutoStarts ==
    (Called("add_to_playlist") /\ prev.playlist = <<>>)
    => (player.playlist_index = Some(0)
        /\ player.sink.queue = <<player.playlist[1]>>)

(* C5, amended: adding a track to an empty playlist only appends it, leaving  *)
(* the cursor and the output as they were; the start is made by tick(): a     *)
(* tick that finds a non-empty playlist, the cursor None and the output empty *)
(* sets the cursor to 0 and, when the first track's file can be read and      *)
(* decoded, hands its source to the output (otherwise it returns the error    *)
(* with the output still empty).                                              *)
C5_AddAppendsTickStarts ==
    /\ (Called("add_to_playlist") /\ prev.playlist = <<>>)
       => /\ Len(player.playlist) = 1
          /\ player.playlist_index = prev.playlist_index
          /\ player.sink = prev.sink
    /\ (Called("tick") /\ prev.playlist # <<>> /\ prev.playlist_index = None
            /\ sink_empty(prev) /\ prev.media_controls.event_rx = <<>>)
       => /\ player.playlist_index = Some(0)
          /\ IF read_and_decode(prev.playlist[1], files) = "Ok"
             THEN result = "Ok" /\ player.sink.queue = <<prev.playlist[1]>>
             ELSE result = "Err" /\ sink_empty(player)

\* a track was added to the empty playlist of a new Player, and nothing started
C5_Witness ==
    /\ Called("add_to_playlist")
    /\ prev.playlist = <<>> /\ prev.playlist_index = None /\ sink_empty(prev)
    /\ Len(player.playlist) = 1
    /\ player.playlist_index = None /\ sink_empty(player)

(* C6: no wraparound: next() with the cursor at the last valid index leaves   *)
(* the cursor unchanged, and previous() with the cursor at 0 or None leaves   *)
(* the cursor unchanged.                                                      *)
C6_NoWraparound ==
    /\ (Called("jump_to_next_track") /\ AtLastIndex(prev))
       => player.playlist_index = prev.playlist_index
    /\ (Called("jump_to_previous_track") /\ prev.playlist_index \in {None, Some(0)})
       => player.playlist_index = prev.playlist_index

\* next() was called with the cursor on the last of two items
C6_Witness ==
    /\ Called("jump_to_next_track")
    /\ Len(prev.playlist) = 2 /\ prev.playlist_index = Some(1)
    /\ player.playlist_index = Some(1)

(* C7: next() at the last index and previous() at index 0 leave the output as *)
(* it was: the source it holds is neither discarded nor enqueued again, and   *)
(* its playback is not restarted.                                             *)
C7_NoSwapWithoutCursorChange ==
    /\ (Called("jump_to_next_track") /\ AtLastIndex(prev))
       => player.sink = prev.sink
    /\ (Called("jump_to_previous_track") /\ prev.playlist_index = Some(0))
       => player.sink = prev.sink

(* C8: next(), previous(), jump_to(i), clear() and the auto-advance of tick() *)
(* leave the output's paused flag as it was before the call.                  *)
C8_NavigationKeepsPaused ==
    (\/ Called("jump_to_next_track")
     \/ Called("jump_to_previous_track")
     \/ Called("jump_to_track_at")
     \/ Called("clear_playlist")
     \/ (Called("tick") /\ NoPlayPauseWaiting(prev)))
    => player.sink.paused = prev.sink.paused

\* next() swapped to another track while the output was paused
C8_Witness ==
    /\ Called("jump_to_next_track")
    /\ prev.sink.paused /\ prev.sink.queue # <<>>
    /\ player.playlist_index # prev.playlist_index
    /\ player.sink.queue # <<>> /\ player.sink.paused

(* C9, as claimed: play() with no current track leaves the output as it was,  *)
(* its paused flag included.                                                  *)
C9_PlayWithoutTrackNoOp ==
    (Called("play") /\ current_track(prev) = None)
    => player.sink = prev.sink

(* C9, amended: play() with no current track leaves the output's queue,       *)
(* position and volume as they were, nothing is enqueued, and it clears the   *)
(* paused flag: the output is not paused after the call, whatever it was.     *)
C9_PlayWithoutTrackUnpauses ==
    (Called("play") /\ current_track(prev) = None)
    => player.sink = [prev.sink EXCEPT !.paused = FALSE]

\* play() was called on a paused output with no current track
C9_Witness ==
    /\ Called("play")
    /\ current_track(prev) = None /\ prev.sink.paused /\ sink_empty(prev)
    /\ ~player.sink.paused /\ sink_empty(player)

(* C10: the status pushed to the media controls is Paused after pause() while *)
(* the output holds a source, Playing after play() in that state, and Stopped *)
(* only when the output holds no source.                                      *)
C10_StatusStateMachine ==
    /\ (Called("pause") /\ ~sink_empty(player))
       => player.media_controls.playback = "Paused"
    /\ (Called("play") /\ ~sink_empty(player))
       => player.media_controls.playback = "Playing"
    /\ ((Called("play") \/ Called("pause"))
            /\ player.media_controls.playback = "Stopped")
       => sink_empty(player)

(* C11: tick() never fails its caller: it returns success also when its       *)
(* auto-advance, or a Next / Previous event it drains, targets a track whose  *)
(* file cannot be read or decoded.                                            *)
C11_TickNeverFails ==
    Called("tick") => result = "Ok"

(* C12: a failing seek is swallowed: when the output's seek primitive returns *)
(* SeekError, set_position returns without an error and the position, the     *)
(* cursor, the playlist and the pause flag are as before the call.            *)
C12_SeekFailureSwallowed ==
    (Called("set_position") /\ sink_try_seek_fails(prev, last.n))
    => /\ result = "Ok"
       /\ player.sink.position = prev.sink.position
       /\ player.playlist_index = prev.playlist_index
       /\ player.playlist = prev.playlist
       /\ player.sink.paused = prev.sink.paused
       /\ player.sink.queue = prev.sink.queue

\* set_position asked a playing sink for a position past the end of its source
C12_Witness ==
    /\ Called("set_position")
    /\ sink_try_seek_fails(prev, last.n)
    /\ prev.sink.position > 0
    /\ result = "Ok"

\* every event of `events` applied in turn, each to what the one before left
RECURSIVE EachApplied(_, _, _)
EachApplied(p, events, fs) ==
    IF events = <<>> THEN p
    ELSE EachApplied(handle_event(p, Head(events), fs).p, Tail(events), fs)

\* what a tick leaves when, after its auto-advance check, it applies every
\* waiting event once, in the order sent, and empties the channel
AllEventsApplied(p, fs) ==
    LET advanced == IF sink_empty(p) THEN jump_to_next_track(p, fs).p ELSE p
        emptied == [advanced EXCEPT !.media_controls.event_rx = <<>>]
    IN  EachApplied(emptied, p.media_controls.event_rx, fs)

(* C13: each tick(), after its auto-advance check, drains the channel to      *)
(* empty and applies every event that was waiting exactly once, in FIFO       *)
(* order, as the corresponding controller call; no event is lost, duplicated  *)
(* or applied outside a tick.                                                 *)
C13_TickDrainsEveryEvent ==
    /\ Called("tick")
       => /\ player.media_controls.event_rx = <<>>
          /\ player = AllEventsApplied(prev, files)
    /\ Called("send_event")
       => /\ Len(player.media_controls.event_rx) = Len(prev.media_controls.event_rx) + 1
          /\ [player EXCEPT !.media_controls.event_rx = <<>>]
                = [prev EXCEPT !.media_controls.event_rx = <<>>]

(* C20: a backward relative seek never aborts the controller: tick()          *)
(* completes normally for every Seek(Backward) and SeekBy(Backward, amount)   *)
(* event, also when the amount exceeds the elapsed position.                  *)
C20_BackwardSeekNeverAborts ==
    Called("tick") => result # "Panic"

(* C14: loading a playlist file fails fast: when resolving a line into a      *)
(* Track fails, load returns the error and the playlist, the cursor and the   *)
(* output are exactly as before the call (no partial replacement).            *)
C14_LoadFailsFast ==
    /\ (Called("load_m3u8_playlist") /\ last.n > 0) => result = "Err"
    /\ (Called("load_m3u8_playlist") /\ result = "Err") => player = prev

NewlineFree(paths) ==
    \A i \in 1..Len(paths) : \A k \in 1..Len(paths[i]) : paths[i][k] # LF

\* no path that is followed by another one ends in a carriage return
NoCarriageReturnBeforeBreak(paths) ==
    \A i \in 1..(Len(paths) - 1) : paths[i][Len(paths[i])] # CR

(* C15, as claimed: for any list P of newline-free paths of loadable tracks,  *)
(* loading the file that holds P, one path per line, yields a playlist whose  *)
(* paths are P in order, and exporting it writes P joined by "\n".            *)
C15_RoundTrip ==
    NewlineFree(m3u8.paths)
    => /\ Called("load_m3u8_playlist")
          => (result = "Ok" /\ player.playlist = m3u8.paths)
       /\ Called("export_m3u8_playlist")
          => m3u8.contents = join(m3u8.paths)

(* C15, amended: the round trip holds for any list P of loadable paths that   *)
(* hold no "\n" and of which none but the last ends in "\r" (lines() takes a  *)
(* "\r" that stands before a line break for part of the break).              *)
C15_RoundTripWithoutCarriageReturn ==
    (NewlineFree(m3u8.paths) /\ NoCarriageReturnBeforeBreak(m3u8.paths))
    => /\ Called("load_m3u8_playlist")
          => (result = "Ok" /\ player.playlist = m3u8.paths)
       /\ Called("export_m3u8_playlist")
          => m3u8.contents = join(m3u8.paths)

\* a file of two paths, the last one ending in "\r", was loaded and written back
C15_Witness ==
    /\ Called("export_m3u8_playlist")
    /\ Len(m3u8.paths) = 2
    /\ NewlineFree(m3u8.paths) /\ NoCarriageReturnBeforeBreak(m3u8.paths)
    /\ m3u8.paths[2][Len(m3u8.paths[2])] = CR
    /\ player.playlist = m3u8.paths
    /\ m3u8.contents = join(m3u8.paths)

(* C16, as claimed: when there is no current track (cursor None, or cursor    *)
(* not addressing an item), the auto-advance step of tick() leaves the cursor *)
(* and the output unchanged.                                                  *)
C16_NoAdvanceWithoutTrack ==
    (Called("tick") /\ prev.media_controls.event_rx = <<>>
        /\ current_track(prev) = None)
    => (player.playlist_index = prev.playlist_index /\ player.sink = prev.sink)

(* C16, amended: tick() makes its auto-advance whenever the output reports    *)
(* empty and the playlist is not empty, whether or not a current track        *)
(* exists.  With no current track it leaves the Player unchanged only when    *)
(* the playlist is empty or the output still holds a source; otherwise it     *)
(* moves a cursor of None to 0 (so the first track is started) and a cursor   *)
(* past the end of the playlist on by one.                                    *)
C16_AdvanceWheneverOutputEmpty ==
    (Called("tick") /\ prev.media_controls.event_rx = <<>>
        /\ current_track(prev) = None)
    => IF prev.playlist = <<>> \/ ~sink_empty(prev)
           THEN player = prev /\ result = "Ok"
       ELSE IF prev.playlist_index = None
           THEN player.playlist_index = Some(0)
       ELSE player.playlist_index = Some(Unwrap(prev.playlist_index) + 1)

\* a tick found tracks, no cursor and an empty output, and started the first track
C16_Witness ==
    /\ Called("tick")
    /\ prev.playlist # <<>> /\ prev.playlist_index = None /\ sink_empty(prev)
    /\ player.playlist_index = Some(0)
    /\ player.sink.queue = <<prev.playlist[1]>>

\* the status the output's state calls for: nothing queued is Stopped
ActualStatus(p) ==
    IF sink_empty(p) THEN "Stopped"
    ELSE IF sink_is_paused(p) THEN "Paused"
    ELSE "Playing"

\* the calls that C17 names: play, pause, next, previous, jump_to, clear and
\* a tick that made its auto-advance
StatusPushingCall ==
    \/ last.op \in {"play", "pause", "jump_to_next_track",
                    "jump_to_previous_track", "jump_to_track_at",
                    "clear_playlist"}
    \/ Called("tick") /\ sink_empty(prev)

(* C17: after play, pause, next, previous, jump_to, clear or a tick           *)
(* auto-advance returns, the status last pushed to the media controls agrees  *)
(* with the output's state; after clear() on a playing Player it is Stopped.  *)
C17_PushedStatusAgrees ==
    (StatusPushingCall /\ result = "Ok")
    => player.media_controls.playback = ActualStatus(player)

\* the case C17 singles out, without any pause involved
C17_ClearPushesStopped ==
    (Called("clear_playlist") /\ result = "Ok"
        /\ ~sink_empty(prev) /\ ~sink_is_paused(prev))
    => player.media_controls.playback = "Stopped"

(* C18: the output holds at most one source, and whenever it holds one, that  *)
(* source was decoded from the track the cursor addresses in the current      *)
(* playlist.                                                                  *)
C18_OutputHoldsCurrentTrack ==
    /\ Len(player.sink.queue) <= 1
    /\ player.sink.queue # <<>>
           => current_track(player) = Some(player.sink.queue[1])

\* the first track is the current track and its source is in the output
Started ==
    /\ player.playlist # <<>>
    /\ player.playlist_index = Some(0)
    /\ player.sink.queue = <<player.playlist[1]>>

\* the cursor points past the end of a playlist that has tracks, nothing plays
Stale(p) ==
    /\ p.playlist # <<>>
    /\ IsSome(p.playlist_index) /\ Unwrap(p.playlist_index) >= Len(p.playlist)
    /\ sink_empty(p)

(* C19: auto-start is reached from every state with an empty playlist,        *)
(* whatever the cursor was before the clear: once add(t) has made t the only  *)
(* track, a tick that finds the output empty makes t the current track        *)
(* (cursor 0) with its source in the output.  tick() is a function of the     *)
(* Player and the files, so a tick that does not start t and leaves a Player  *)
(* of the same kind is followed by ticks that do not start it either.         *)
C19_TickStartsAddedTrack ==
    (Called("tick") /\ Len(prev.playlist) = 1 /\ sink_empty(prev)
        /\ prev.media_controls.event_rx = <<>>
        /\ read_and_decode(prev.playlist[1], files) = "Ok")
    => Started

\* a tick on a cursor past the end leaves the cursor past the end, one further
\* on, and the output empty: from there no number of ticks starts the track
C19_StaleCursorStaysStale ==
    [][(Stale(player) /\ last'.op = "tick")
        => (Stale(player')
            /\ player'.playlist_index = Some(Unwrap(player.playlist_index) + 1))]_vars

\* Next, Prev or Jump moved the cursor onto a track while the sink was paused
\* and held a source
PausedNavigation ==
    /\ last.op \in {"Next", "Prev", "Jump"}
    /\ sink_is_paused(kanta_before) /\ ~sink_empty(kanta_before)
    /\ kanta.queue_pos # kanta_before.queue_pos
    /\ IsSome(Kanta_current_track(kanta))

(* C21: in the application controller, a navigation made while the output is  *)
(* paused and holds an unfinished source discards that source: afterwards the *)
(* output holds only the new current track's source, which is the one that    *)
(* plays first on resuming.                                                   *)
C21_PausedNavigationDiscards ==
    PausedNavigation
    => kanta.sink.queue = <<Unwrap(Kanta_current_track(kanta)).name>>

====
